---------------------------- MODULE Spec2Model ----------------------------
(***************************************************************************)
(* Progressive Note-Taker: the wired flow of createNoteFlow (detector,     *)
(* extractor, five layer nodes, file saver), the node lifecycle it runs    *)
(* under (prep, exec with retry, post, routing by action label) and the    *)
(* shared state threaded through it.                                       *)
(*                                                                         *)
(* Text values (raw input, titles, slugs, file names, layer texts) are     *)
(* sequences of one-character strings, so that trimming, suffix tests,     *)
(* slugs and file names are computed and not assumed.                      *)
(***************************************************************************)
EXTENDS Integers, Sequences, FiniteSets, TLC

(***************************************************************************)
(* Characters and string primitives (JavaScript String methods)            *)
(***************************************************************************)
UpperCase == <<"A", "B", "C", "D", "E", "F", "G", "H", "I", "J", "K", "L", "M",
               "N", "O", "P", "Q", "R", "S", "T", "U", "V", "W", "X", "Y", "Z">>

LowerCase == <<"a", "b", "c", "d", "e", "f", "g", "h", "i", "j", "k", "l", "m",
               "n", "o", "p", "q", "r", "s", "t", "u", "v", "w", "x", "y", "z">>

DigitChars == {"0", "1", "2", "3", "4", "5", "6", "7", "8", "9"}

\* \s of the regular expressions and the characters String.trim removes
Whitespace == {" ", "\n", "\t"}

Range(s) == {s[i] : i \in DOMAIN s}

IsAlnum(c) == c \in Range(UpperCase) \cup Range(LowerCase) \cup DigitChars

\* \w of the regular expressions
IsWordChar(c) == IsAlnum(c) \/ c = "_"

LowerChar(c) ==
    IF c \in Range(UpperCase)
    THEN LowerCase[CHOOSE i \in DOMAIN UpperCase : UpperCase[i] = c]
    ELSE c

UpperChar(c) ==
    IF c \in Range(LowerCase)
    THEN UpperCase[CHOOSE i \in DOMAIN LowerCase : LowerCase[i] = c]
    ELSE c

ToLowerCase(s) == [i \in DOMAIN s |-> LowerChar(s[i])]

RECURSIVE TrimStart(_)
TrimStart(s) ==
    IF s = <<>> THEN s
    ELSE IF Head(s) \in Whitespace THEN TrimStart(Tail(s)) ELSE s

RECURSIVE TrimEnd(_)
TrimEnd(s) ==
    IF s = <<>> THEN s
    ELSE IF s[Len(s)] \in Whitespace THEN TrimEnd(SubSeq(s, 1, Len(s) - 1)) ELSE s

Trim(s) == TrimEnd(TrimStart(s))

StartsWith(s, p) == Len(s) >= Len(p) /\ SubSeq(s, 1, Len(p)) = p

EndsWith(s, p) == Len(s) >= Len(p) /\ SubSeq(s, Len(s) - Len(p) + 1, Len(s)) = p

\* the positions of character c in s
Positions(s, c) == {i \in DOMAIN s : s[i] = c}

Max(S) == CHOOSE x \in S : \A y \in S : y <= x

Min(S) == CHOOSE x \in S : \A y \in S : x <= y

\* a JavaScript value is falsy when it is undefined or the empty string
undefined == <<"undefined">>

Truthy(v) == v # undefined /\ v # <<>>

\* a || b
OrElse(a, b) == IF Truthy(a) THEN a ELSE b

(***************************************************************************)
(* Literals of the source                                                  *)
(***************************************************************************)
StrHttp == <<"h", "t", "t", "p", ":", "/", "/">>

StrHttps == <<"h", "t", "t", "p", "s", ":", "/", "/">>

StrPdfExt == <<".", "p", "d", "f">>

ImageExtensions ==
    { <<".", "p", "n", "g">>, <<".", "j", "p", "g">>, <<".", "j", "p", "e", "g">>,
      <<".", "g", "i", "f">>, <<".", "b", "m", "p">>, <<".", "w", "e", "b", "p">>,
      <<".", "t", "i", "f", "f">> }

StrUntitledTitle == <<"U", "n", "t", "i", "t", "l", "e", "d">>

StrUntitledSlug == <<"u", "n", "t", "i", "t", "l", "e", "d">>

StrLevel == <<"_", "l", "e", "v", "e", "l", "-">>

StrMd == <<".", "m", "d">>

StrEllipsis == <<".", ".", ".">>

StrImagePrefix ==
    <<"[", "I", "m", "a", "g", "e", " ", "c", "o", "n", "t", "e", "n", "t", " ",
      "f", "r", "o", "m", ":", " ">>

StrImageSuffix ==
    <<"]", "\n", "\n", "N", "o", "t", "e", ":", " ", "O", "C", "R", " ", "e", "x",
      "t", "r", "a", "c", "t", "i", "o", "n", " ", "r", "e", "q", "u", "i", "r",
      "e", "s", " ", "t", "e", "s", "s", "e", "r", "a", "c", "t", ".", "j", "s",
      " ", "o", "r", " ", "c", "l", "o", "u", "d", " ", "O", "C", "R", " ", "i",
      "n", "t", "e", "g", "r", "a", "t", "i", "o", "n", ".">>

DefaultDirectory == <<".", "/", "d", "a", "t", "a", "/", "n", "o", "t", "e", "s">>

InputType == {"text", "pdf", "image", "url"}

(***************************************************************************)
(* InputDetectorNode: classification of the raw input                      *)
(***************************************************************************)
\* input.match(/^https?:\/\//i)
MatchesHttpScheme(input) ==
    \/ StartsWith(ToLowerCase(input), StrHttp)
    \/ StartsWith(ToLowerCase(input), StrHttps)

\* What follows the scheme and its slashes, up to the first "/", "?" or "#":
\* the host part that new URL() has to accept.
UrlHost(input) ==
    LET skip == IF StartsWith(ToLowerCase(input), StrHttps) THEN Len(StrHttps)
                ELSE Len(StrHttp)
        rest0 == SubSeq(input, skip + 1, Len(input))
        lead  == {i \in DOMAIN rest0 : \A j \in 1..i : rest0[j] = "/"}
        rest  == SubSeq(rest0, Cardinality(lead) + 1, Len(rest0))
        stops == {i \in DOMAIN rest : rest[i] \in {"/", "?", "#"}}
    IN  IF stops = {} THEN rest ELSE SubSeq(rest, 1, Min(stops) - 1)

\* new URL(input) does not throw: for an http(s) input the host is not empty
\* and holds no forbidden host character (of those the inputs use, the space).
UrlParses(input) ==
    /\ UrlHost(input) # <<>>
    /\ \A i \in DOMAIN UrlHost(input) : UrlHost(input)[i] \notin Whitespace

isUrl(input) ==
    IF ~MatchesHttpScheme(input) THEN FALSE ELSE UrlParses(input)

isPdfFile(input) == EndsWith(ToLowerCase(input), StrPdfExt)

isImageFile(input) == \E ext \in ImageExtensions : EndsWith(ToLowerCase(input), ext)

\* InputDetectorNode.exec
\* InputDetectorNode.exec without the default label
DetectExecWithoutDefault(input) ==
    LET trimmed == Trim(input)
    IN  IF isUrl(trimmed) THEN "url"
        ELSE IF isPdfFile(trimmed) THEN "pdf"
        ELSE IF isImageFile(trimmed) THEN "image"
        ELSE "unknown"

\* InputDetectorNode.exec testing the raw input without trimming it
DetectExecUntrimmed(input) ==
    IF isUrl(input) THEN "url"
    ELSE IF isPdfFile(input) THEN "pdf"
    ELSE IF isImageFile(input) THEN "image"
    ELSE "text"

\* InputDetectorNode.exec testing the pdf extension before the URL
DetectExecPdfFirst(input) ==
    LET trimmed == Trim(input)
    IN  IF isPdfFile(trimmed) THEN "pdf"
        ELSE IF isUrl(trimmed) THEN "url"
        ELSE IF isImageFile(trimmed) THEN "image"
        ELSE "text"

DetectExec(input) ==
    LET trimmed == Trim(input)
    IN  IF isUrl(trimmed) THEN "url"
        ELSE IF isPdfFile(trimmed) THEN "pdf"
        ELSE IF isImageFile(trimmed) THEN "image"
        ELSE "text"

(***************************************************************************)
(* Extractors (utils/extractors.ts) and file helpers (utils/files.ts)      *)
(***************************************************************************)
\* text.trim().split(/\s+/).filter(Boolean).length: the number of maximal
\* runs of non-whitespace characters
\* countWords splitting at single spaces only
countWordsAtSpaces(text) ==
    Cardinality({i \in DOMAIN text : text[i] = " "}) + 1

countWords(text) ==
    Cardinality({i \in DOMAIN text :
                    /\ text[i] \notin Whitespace
                    /\ (i = 1 \/ text[i - 1] \in Whitespace)})

\* text.split('\n')[0]
FirstLine(text) ==
    IF Positions(text, "\n") = {} THEN text
    ELSE SubSeq(text, 1, Min(Positions(text, "\n")) - 1)

\* firstLine.replace(/^#+\s*/, '')
RECURSIVE DropWhile(_, _)
DropWhile(s, C) ==
    IF s = <<>> THEN s
    ELSE IF Head(s) \in C THEN DropWhile(Tail(s), C) ELSE s

StripHeading(line) == DropWhile(DropWhile(line, {"#"}), Whitespace)

extractTitleFromText(text) ==
    LET firstLine == OrElse(Trim(FirstLine(Trim(text))), StrUntitledTitle)
    IN  IF StartsWith(firstLine, <<"#">>) THEN StripHeading(firstLine)
        ELSE IF Len(firstLine) <= 100 THEN firstLine
        ELSE SubSeq(firstLine, 1, 97) \o StrEllipsis

\* filePath.split('/').pop() || filePath
LastSegment(filePath) ==
    LET seg == IF Positions(filePath, "/") = {} THEN filePath
               ELSE SubSeq(filePath, Max(Positions(filePath, "/")) + 1, Len(filePath))
    IN  OrElse(seg, filePath)

\* s.replace(/\.[^.]+$/, ''): cut from the last dot when something follows it
RemoveExtension(s) ==
    IF Positions(s, ".") = {} \/ Max(Positions(s, ".") \cup {0}) = Len(s) THEN s
    ELSE SubSeq(s, 1, Max(Positions(s, ".")) - 1)

\* s.replace(/[-_]/g, ' ')
DashesToSpaces(s) == [i \in DOMAIN s |-> IF s[i] \in {"-", "_"} THEN " " ELSE s[i]]

\* s.replace(/\b\w/g, c => c.toUpperCase())
Capitalize(s) ==
    [i \in DOMAIN s |->
        IF IsWordChar(s[i]) /\ (i = 1 \/ ~IsWordChar(s[i - 1]))
        THEN UpperChar(s[i]) ELSE s[i]]

extractTitleFromPath(filePath) ==
    Capitalize(DashesToSpaces(RemoveExtension(LastSegment(filePath))))

\* extractFromText: pass-through
extractFromText(input) ==
    [content  |-> input,
     metadata |-> [title     |-> extractTitleFromText(input),
                   author    |-> undefined,
                   date      |-> undefined,
                   wordCount |-> countWords(input)]]

\* extractFromImage: the placeholder result
\* extractFromImage counting the words of its placeholder text
extractFromImageCounting(filePath) ==
    [content  |-> StrImagePrefix \o filePath \o StrImageSuffix,
     metadata |-> [title     |-> extractTitleFromPath(filePath),
                   author    |-> undefined,
                   date      |-> undefined,
                   wordCount |-> countWords(StrImagePrefix \o filePath \o StrImageSuffix)]]

extractFromImage(filePath) ==
    [content  |-> StrImagePrefix \o filePath \o StrImageSuffix,
     metadata |-> [title     |-> extractTitleFromPath(filePath),
                   author    |-> undefined,
                   date      |-> undefined,
                   wordCount |-> 0]]

\* slugify(title, {lower, strict, trim}) of the slugify package: "-" becomes
\* a space, everything but letters, digits and whitespace is dropped, the
\* result is trimmed, each whitespace run becomes one "-", then lower case
RECURSIVE SlugKeep(_)
SlugKeep(s) ==
    IF s = <<>> THEN <<>>
    ELSE LET c == IF Head(s) = "-" THEN " " ELSE Head(s)
         IN  IF IsAlnum(c) \/ c \in Whitespace
             THEN <<c>> \o SlugKeep(Tail(s)) ELSE SlugKeep(Tail(s))

RECURSIVE SlugJoin(_)
SlugJoin(s) ==
    IF s = <<>> THEN <<>>
    ELSE IF Head(s) \in Whitespace
         THEN <<"-">> \o SlugJoin(DropWhile(s, Whitespace))
         ELSE <<Head(s)>> \o SlugJoin(Tail(s))

slugify(title) == ToLowerCase(SlugJoin(Trim(SlugKeep(title))))

\* `${timestamp}_${slug}_level-${level}.md`
\* generateLayerFilename joining the parts with dashes
generateLayerFilenameDashed(timestamp, slug, level) ==
    timestamp \o <<"-">> \o slug \o <<"-", "l", "e", "v", "e", "l", "-">>
        \o <<ToString(level)>> \o StrMd

\* generateLayerFilename leaving the level out
generateLayerFilenameWithoutLevel(timestamp, slug, level) ==
    timestamp \o <<"_">> \o slug \o StrMd

generateLayerFilename(timestamp, slug, level) ==
    timestamp \o <<"_">> \o slug \o StrLevel \o <<ToString(level)>> \o StrMd

\* path.join(directory, filename): the segments of directory + "/" + filename
\* without the empty and "." ones, joined by "/" (a leading "/" is kept)
RECURSIVE Segments(_)
Segments(p) ==
    IF Positions(p, "/") = {} THEN <<p>>
    ELSE <<SubSeq(p, 1, Min(Positions(p, "/")) - 1)>>
         \o Segments(SubSeq(p, Min(Positions(p, "/")) + 1, Len(p)))

RECURSIVE JoinSegments(_)
JoinSegments(segs) ==
    IF segs = <<>> THEN <<>>
    ELSE IF Len(segs) = 1 THEN Head(segs)
    ELSE Head(segs) \o <<"/">> \o JoinSegments(Tail(segs))

PathJoin(directory, filename) ==
    LET raw  == directory \o <<"/">> \o filename
        kept == SelectSeq(Segments(raw), LAMBDA g : g # <<>> /\ g # <<".">>)
    IN  (IF StartsWith(raw, <<"/">>) THEN <<"/">> ELSE <<>>) \o JoinSegments(kept)

\* extractTitleFromURL: the last path segment, dashes to spaces, extension
\* removed, capitalized; the host name when the path is empty
UrlPathname(url) ==
    LET skip  == IF StartsWith(ToLowerCase(url), StrHttps) THEN Len(StrHttps)
                 ELSE Len(StrHttp)
        rest  == DropWhile(SubSeq(url, skip + 1, Len(url)), {"/"})
        after == SubSeq(rest, Len(UrlHost(url)) + 1, Len(rest))
        stops == {i \in DOMAIN after : after[i] \in {"?", "#"}}
    IN  IF stops = {} THEN after ELSE SubSeq(after, 1, Min(stops) - 1)

extractTitleFromURL(url) ==
    LET pathParts == SelectSeq(Segments(UrlPathname(url)), LAMBDA g : g # <<>>)
    IN  IF ~UrlParses(url) THEN StrUntitledTitle
        ELSE IF Len(pathParts) > 0
        THEN Capitalize(RemoveExtension(DashesToSpaces(pathParts[Len(pathParts)])))
        ELSE ToLowerCase(UrlHost(url))

\* generateTimestamp: YYYYMMDD-HHmmss of a Date
PadStart2(n) == <<ToString(n \div 10), ToString(n % 10)>>

generateTimestamp(d) ==
    <<ToString(d.year \div 1000), ToString((d.year \div 100) % 10)>>
    \o PadStart2(d.year % 100) \o PadStart2(d.month + 1) \o PadStart2(d.day)
    \o <<"-">> \o PadStart2(d.hours) \o PadStart2(d.minutes) \o PadStart2(d.seconds)

\* Date.toISOString (the clock is read in UTC)
toISOString(d) ==
    <<ToString(d.year \div 1000), ToString((d.year \div 100) % 10)>>
    \o PadStart2(d.year % 100) \o <<"-">> \o PadStart2(d.month + 1) \o <<"-">>
    \o PadStart2(d.day) \o <<"T">> \o PadStart2(d.hours) \o <<":">>
    \o PadStart2(d.minutes) \o <<":">> \o PadStart2(d.seconds)
    \o <<".", "0", "0", "0", "Z">>

(***************************************************************************)
(* The graph: nodes, routing table, retry policy                           *)
(***************************************************************************)
Nodes == {"InputDetector", "ContentExtractor", "Layer1", "Layer2", "Layer3",
          "Layer4", "Layer5", "FileSaver"}

LayerNodes == {"Layer1", "Layer2", "Layer3", "Layer4", "Layer5"}

\* the node that is a BatchNode
BatchNodes == {"FileSaver"}

NoNode == "none"

\* BaseNode.on(action, node): register (or overwrite) a successor
On(table, node, action, target) ==
    [table EXCEPT ![node] = (action :> target) @@ @]

\* BaseNode.next(node): the successor for the label "default"
NextTo(table, node, target) == On(table, node, "default", target)

\* BaseNode.getNextNode(action): the successor registered for exactly this
\* label, none when there is no such registration
getNextNode(table, node, action) ==
    IF action \in DOMAIN table[node] THEN table[node][action] ELSE NoNode

\* createNoteFlow without the registration of the label 'image'
SuccessorsWithoutImage ==
    LET t0  == [n \in Nodes |-> <<>>]
        t1  == On(t0, "InputDetector", "text", "ContentExtractor")
        t2  == On(t1, "InputDetector", "pdf", "ContentExtractor")
        t4  == On(t2, "InputDetector", "url", "ContentExtractor")
        t5  == NextTo(t4, "ContentExtractor", "Layer1")
        t6  == NextTo(t5, "Layer1", "Layer2")
        t7  == NextTo(t6, "Layer2", "Layer3")
        t8  == NextTo(t7, "Layer3", "Layer4")
        t9  == NextTo(t8, "Layer4", "Layer5")
        t10 == NextTo(t9, "Layer5", "FileSaver")
    IN  t10

\* createNoteFlow with layer3.next(layer5) in the place of layer3.next(layer4)
SuccessorsSkippingLayer4 ==
    LET t0  == [n \in Nodes |-> <<>>]
        t1  == On(t0, "InputDetector", "text", "ContentExtractor")
        t2  == On(t1, "InputDetector", "pdf", "ContentExtractor")
        t3  == On(t2, "InputDetector", "image", "ContentExtractor")
        t4  == On(t3, "InputDetector", "url", "ContentExtractor")
        t5  == NextTo(t4, "ContentExtractor", "Layer1")
        t6  == NextTo(t5, "Layer1", "Layer2")
        t7  == NextTo(t6, "Layer2", "Layer3")
        t8  == NextTo(t7, "Layer3", "Layer5")
        t9  == NextTo(t8, "Layer4", "Layer5")
        t10 == NextTo(t9, "Layer5", "FileSaver")
    IN  t10

\* createNoteFlow with FileSaver wired back to Layer1
SuccessorsLoopingBack ==
    LET t0  == [n \in Nodes |-> <<>>]
        t1  == On(t0, "InputDetector", "text", "ContentExtractor")
        t2  == On(t1, "InputDetector", "pdf", "ContentExtractor")
        t3  == On(t2, "InputDetector", "image", "ContentExtractor")
        t4  == On(t3, "InputDetector", "url", "ContentExtractor")
        t5  == NextTo(t4, "ContentExtractor", "Layer1")
        t6  == NextTo(t5, "Layer1", "Layer2")
        t7  == NextTo(t6, "Layer2", "Layer3")
        t8  == NextTo(t7, "Layer3", "Layer4")
        t9  == NextTo(t8, "Layer4", "Layer5")
        t10 == NextTo(t9, "Layer5", "FileSaver")
        t11 == NextTo(t10, "FileSaver", "Layer1")
    IN  t11

\* createNoteFlow: the routing table it wires
Successors ==
    LET t0  == [n \in Nodes |-> <<>>]
        t1  == On(t0, "InputDetector", "text", "ContentExtractor")
        t2  == On(t1, "InputDetector", "pdf", "ContentExtractor")
        t3  == On(t2, "InputDetector", "image", "ContentExtractor")
        t4  == On(t3, "InputDetector", "url", "ContentExtractor")
        t5  == NextTo(t4, "ContentExtractor", "Layer1")
        t6  == NextTo(t5, "Layer1", "Layer2")
        t7  == NextTo(t6, "Layer2", "Layer3")
        t8  == NextTo(t7, "Layer3", "Layer4")
        t9  == NextTo(t8, "Layer4", "Layer5")
        t10 == NextTo(t9, "Layer5", "FileSaver")
    IN  t10

\* new Flow(inputDetector)
StartNode == "InputDetector"

\* Node's constructor defaults (maxRetries = 1, wait = 0 seconds): what a
\* node constructed without arguments gets
DefaultMaxRetries == 1

DefaultWait == 0

\* createNoteFlow constructs every node without arguments
NodePolicy(maxRetries, wait) ==
    [n \in Nodes |-> [maxRetries |-> maxRetries, wait |-> wait]]

\* defaultConfig.processing (types.ts): declared, read by no node
ConfigMaxRetries == 3

ConfigRetryWait == 2

(***************************************************************************)
(* Bounds and the inputs of a run                                          *)
(***************************************************************************)
\* the largest attempt count and wait (seconds) a node is constructed with
\* in the specification that explores the retry policy
MaxAttempts == 3

MaxWait == 2

TextNote ==
    <<"H", "e", "l", "l", "o", " ", "w", "o", "r", "l", "d", ".", " ", "T", "h",
      "i", "s", " ", "i", "s", " ", "a", " ", "s", "h", "o", "r", "t", " ", "n",
      "o", "t", "e", " ", "a", "b", "o", "u", "t", " ", "f", "o", "c", "u", "s",
      ".">>

\* process.cwd()
Cwd == <<"/", "d">>

\* path.resolve: an absolute path stays, a relative one is put under cwd
resolve(path) ==
    IF path # <<>> /\ Head(path) = "/" THEN path ELSE Cwd \o <<"/">> \o path

\* readFile failing
NoFile == <<"ENOENT">>

\* the text files there can be, by absolute path
Files ==
    { [path |-> <<"/", "d", "/", "n", ".", "m", "d">>,  content |-> <<"#", " ", "H", "i", "\n", "y", "o">>],
      [path |-> <<"/", "d", "/", "u", ".", "t", "x", "t">>, content |-> <<"h", "t", "t", "p", ":", "/", "/", "a", ".", "b", "/", "x", ".", "p", "d", "f">>],
      [path |-> <<"/", "d", "/", "f">>,     content |-> <<>>] }

\* what readFile(path, 'utf-8') can answer: the content, or a failure
ReadOutcomes(path) == {NoFile} \cup {f.content : f \in {g \in Files : g.path = path}}

BinaryExtensions ==
    { <<".", "p", "d", "f">>, <<".", "p", "n", "g">>, <<".", "j", "p", "g">>, <<".", "j", "p", "e", "g">>, <<".", "g", "i", "f">>, <<".", "b", "m", "p">>, <<".", "w", "e", "b", "p">>, <<".", "t", "i", "f", "f">> }

TextExtensions == { <<".", "t", "x", "t">>, <<".", "m", "d">>, <<".", "m", "a", "r", "k", "d", "o", "w", "n">> }

HasExtension(input, extensions) ==
    \E ext \in extensions : EndsWith(ToLowerCase(input), ext)

\* resolveInput, given what readFile answers for resolve(input)
resolveInput(input, file) ==
    IF MatchesHttpScheme(input) THEN input
    ELSE IF HasExtension(input, BinaryExtensions) THEN resolve(input)
    ELSE IF HasExtension(input, TextExtensions)
         THEN (IF file # NoFile THEN file ELSE input)
    ELSE IF file # NoFile THEN file ELSE input

\* the positional argument of the command line
CliInputs ==
    { TextNote,
      <<"n", ".", "m", "d">>,
      <<"f">>,
      <<"u", ".", "t", "x", "t">>,
      <<"h", "t", "t", "p", ":", "/", "/", "a", ".", "b", "/", "x", ".", "p", "d", "f">>,
      <<"h", "t", "t", "p", ":", "/", "/", "a", " ", "b", ".", "p", "d", "f">>,
      <<"h", "t", "t", "p", "s", ":", "/", "/">>,
      <<"?", "!">>,
      <<"H", "t", "t", "p", "s", ":", "/", "/", "a", ".", "b", "/", "c", ".", "P", "n", "g">>,
      <<"D", "o", "c", ".", "P", "D", "F">>,
      <<" ", "m", "y", "_", "p", "i", "c", ".", "p", "n", "g", "\n">> }

\* what main hands to createInitialState
RawInputs ==
    UNION { { resolveInput(input, file) : file \in ReadOutcomes(resolve(input)) } :
            input \in CliInputs }

\* the options of createInitialState: focus area, output format, directory
RunOptions ==
    { [focusArea |-> undefined, outputFormat |-> undefined, outputDirectory |-> undefined],
      [focusArea |-> <<"f", "o", "c", "u", "s">>,
       outputFormat |-> <<"l", "i", "s", "t">>,
       outputDirectory |-> <<"o", "u", "t">>] }

\* what the PDF parser can return for a readable file
PdfDocs ==
    { [text |-> <<"a", "b", " ", "c", "d">>, Title |-> undefined, Author |-> undefined],
      [text |-> <<>>, Title |-> <<"T", "-", "1">>, Author |-> <<"A", "n", "n">>] }

\* what a fetched page yields: its text and the title found in the HTML
WebPages ==
    { [text |-> <<"w", "e", "b">>, title |-> undefined],
      [text |-> <<"w", " ", "p">>, title |-> <<"N", "e", "w", "s", "!">>] }

\* what a generation call can answer; the providers answer '' when the
\* response carries no text
LlmTexts == { <<>>, <<"o", "k">> }

\* --provider is accepted unchecked
Providers == {"openai", "mistral"}

SupportedProviders == {"openai", "anthropic", "ollama"}

\* the readings of the clock
Dates ==
    { [year |-> 2024, month |-> 0, day |-> 15, hours |-> 14, minutes |-> 30, seconds |-> 22] }

unset == "undefined"

(***************************************************************************)
(* State                                                                   *)
(***************************************************************************)
VARIABLES
    argv,             \* main: the input argument and what reading it as a file answers
    shared,           \* the SharedState record threaded through the run
    globalConfig,     \* llm.ts: the global LLM configuration
    nodes,            \* per node: maxRetries and wait (Node's fields)
    current,          \* Flow._orchestrate: the node being run
    pc,               \* its phase: "prep", "exec", "post"; "done" after the run
    prepBox,          \* what prep returned, kept under the node's name
    execBox,          \* what exec returned (a batch node: per item index), likewise
    currentRetry,     \* Node.currentRetry of the node being run
    savedFilesLocal,  \* FileSaverNode.post: its local savedFiles array
    fileWrites,       \* the files written (writeFile calls that succeeded)
    status,           \* main: "running", "completed", "failed"
    exitCode,         \* main: the process exit code, -1 while running
    error,            \* main: the error message that reached its catch
    activations,      \* history: the nodes activated, in order
    calls,            \* history: per node, how often prep and post were entered
    attempts,         \* history: the exec invocations of this activation
    argsBox,          \* history: the inputs exec was invoked with in it
    waited,           \* history: the seconds slept between its attempts
    writeLog,         \* history: every assignment to shared, as (node, field)
    saveAttempts      \* history: the levels saveLayer was called for

vars == <<argv, shared, globalConfig, nodes, current, pc, prepBox, execBox, currentRetry,
          savedFilesLocal,
          fileWrites, status, exitCode, error, activations, calls, attempts,
          argsBox, waited, writeLog, saveAttempts>>

\* prep and exec return values of a different shape per node (a text, a
\* label, a record, a list); each is kept under the name of its node
Box(tag, value) == tag :> value

Unbox(box) == box[CHOOSE tag \in DOMAIN box : TRUE]

\* nothing returned yet
NoValue == Box("none", <<>>)

prepRes == Unbox(prepBox)

execRes == Unbox(execBox)

\* history: the inputs exec was invoked with in this activation
execArgs == {Unbox(box) : box \in argsBox}

NoError == ""

\* createInitialState
createInitialState(input, options) ==
    [input    |-> [raw          |-> input,
                   type         |-> unset,
                   focusArea    |-> options.focusArea,
                   outputFormat |-> options.outputFormat],
     metadata |-> [title      |-> <<>>,
                   author     |-> undefined,
                   date       |-> undefined,
                   sourceType |-> "",
                   wordCount  |-> 0],
     content  |-> [raw |-> <<>>],
     layers   |-> [layer1 |-> undefined, layer2 |-> undefined, layer3 |-> undefined,
                   layer4 |-> undefined, layer5 |-> undefined],
     output   |-> [directory  |-> OrElse(options.outputDirectory, DefaultDirectory),
                   timestamp  |-> undefined,
                   slug       |-> undefined,
                   savedFiles |-> <<>>]]

\* shared.input.type || 'text'
TypeOrText(sh) == IF sh.input.type = unset THEN "text" ELSE sh.input.type

(***************************************************************************)
(* prep of each node: a read of shared                                     *)
(***************************************************************************)
\* FileSaverNode.layerConfigs
layerConfigs ==
    << [level |-> 1, name |-> "Initial Capture",    key |-> "layer1"],
       [level |-> 2, name |-> "Key Passages",       key |-> "layer2"],
       [level |-> 3, name |-> "Distilled Insights", key |-> "layer3"],
       [level |-> 4, name |-> "Executive Summary",  key |-> "layer4"],
       [level |-> 5, name |-> "Creative Output",    key |-> "layer5"] >>

\* FileSaverNode.prep: one entry per layer whose content is truthy
RECURSIVE FileSaverEntries(_, _)
FileSaverEntries(sh, configs) ==
    IF configs = <<>> THEN <<>>
    ELSE LET config  == Head(configs)
             content == sh.layers[config.key]
         IN  (IF Truthy(content)
              THEN << [level |-> config.level, name |-> config.name, content |-> content] >>
              ELSE <<>>)
             \o FileSaverEntries(sh, Tail(configs))

\* FileSaverNode.prep without the test `if (content)`
FileSaverPrepUnfiltered(sh) ==
    [i \in 1..5 |-> [level   |-> layerConfigs[i].level,
                     name    |-> layerConfigs[i].name,
                     content |-> OrElse(sh.layers[layerConfigs[i].key], <<>>)]]

FileSaverPrep(sh) == FileSaverEntries(sh, layerConfigs)

InputDetectorPrep(sh) == sh.input.raw

ContentExtractorPrep(sh) == [raw |-> sh.input.raw, type |-> TypeOrText(sh)]

Layer1Prep(sh) ==
    [content    |-> sh.content.raw,
     title      |-> sh.metadata.title,
     focusArea  |-> sh.input.focusArea,
     sourceType |-> sh.metadata.sourceType,
     author     |-> sh.metadata.author,
     date       |-> sh.metadata.date]

Layer2Prep(sh) == OrElse(sh.layers.layer1, <<>>)

Layer3Prep(sh) ==
    [layer2 |-> OrElse(sh.layers.layer2, <<>>), originalWordCount |-> sh.metadata.wordCount]

Layer4Prep(sh) ==
    [layer3 |-> OrElse(sh.layers.layer3, <<>>),
     title  |-> sh.metadata.title,
     author |-> sh.metadata.author]

Layer5Prep(sh) ==
    [layer3       |-> OrElse(sh.layers.layer3, <<>>),
     layer4       |-> OrElse(sh.layers.layer4, <<>>),
     title        |-> sh.metadata.title,
     outputFormat |-> sh.input.outputFormat,
     sourceType   |-> sh.metadata.sourceType]

\* Layer1CaptureNode.prep storing a default focus area in shared
PrepWritesFocusDefault(node, sh) ==
    IF node = "Layer1"
    THEN [sh EXCEPT !.input.focusArea = OrElse(@, <<"a", "l", "l">>)]
    ELSE sh

\* shared after prep of a node: no prep assigns to it
PrepWrites(node, sh) == sh

PrepOf(node, sh) ==
    CASE node = "InputDetector"    -> InputDetectorPrep(sh)
      [] node = "ContentExtractor" -> ContentExtractorPrep(sh)
      [] node = "Layer1"           -> Layer1Prep(sh)
      [] node = "Layer2"           -> Layer2Prep(sh)
      [] node = "Layer3"           -> Layer3Prep(sh)
      [] node = "Layer4"           -> Layer4Prep(sh)
      [] node = "Layer5"           -> Layer5Prep(sh)
      [] node = "FileSaver"        -> FileSaverPrep(sh)

(***************************************************************************)
(* exec of each node: what it can return, and what it can throw            *)
(***************************************************************************)
\* extractFromPDF, when the file is read and parsed
extractFromPDF(filePath) ==
    { [content  |-> doc.text,
       metadata |-> [title     |-> OrElse(doc.Title, extractTitleFromPath(filePath)),
                     author    |-> doc.Author,
                     date      |-> undefined,
                     wordCount |-> countWords(doc.text)]] : doc \in PdfDocs }

\* extractFromURL, when the fetch answers ok; the date is the fetch time
extractFromURL(url) ==
    { [content  |-> page.text,
       metadata |-> [title     |-> OrElse(page.title, extractTitleFromURL(url)),
                     author    |-> undefined,
                     date      |-> toISOString(d),
                     wordCount |-> countWords(page.text)]] :
      page \in WebPages, d \in Dates }

\* ContentExtractorNode.exec: the switch on the type
ContentExtractorExec(prep) ==
    CASE prep.type = "pdf"   -> extractFromPDF(prep.raw)
      [] prep.type = "image" -> {extractFromImage(prep.raw)}
      [] prep.type = "url"   -> extractFromURL(prep.raw)
      [] OTHER               -> {extractFromText(prep.raw)}

\* the errors the extractors raise: a PDF that cannot be read or parsed, a
\* URL that cannot be fetched or answers not ok
ContentExtractorErrors(prep) ==
    CASE prep.type = "pdf" -> {"Failed to extract PDF content"}
      [] prep.type = "url" -> {"Failed to fetch URL content"}
      [] OTHER             -> {}

\* callLlm treating an unknown provider as the default one
callLlmDefaultingToOpenAI(config) == LlmTexts

\* callLlm: the answer of a supported provider
callLlm(config) ==
    IF config.provider \in SupportedProviders THEN LlmTexts ELSE {}

\* callLlm: an unsupported provider always throws; a supported one throws
\* on a missing key, a failed request or a response that is not ok
callLlmErrors(config) ==
    IF config.provider \in SupportedProviders
    THEN {"LLM API error"}
    ELSE {"Unsupported LLM provider"}

\* FileSaverNode.exec: JSON.stringify(entry)
FileSaverExec(entry) == [json |-> entry]

\* what exec of a plain node can return for the prepared input
ExecResults(node, prep, config) ==
    CASE node = "InputDetector"    -> {DetectExec(prep)}
      [] node = "ContentExtractor" -> ContentExtractorExec(prep)
      [] node \in LayerNodes       -> callLlm(config)

\* what exec of a plain node can throw for the prepared input
ExecErrors(node, prep, config) ==
    CASE node = "InputDetector"    -> {}
      [] node = "ContentExtractor" -> ContentExtractorErrors(prep)
      [] node \in LayerNodes       -> callLlmErrors(config)

(***************************************************************************)
(* post of each node: the assignments to shared, in order, and the label   *)
(***************************************************************************)
Field(obj, key) == [obj |-> obj, key |-> key]

\* InputDetectorNode.post
\* InputDetectorNode.post storing the trimmed input in place of the raw one
InputDetectorPostTrimming(sh, prep, inputType) ==
    [shared |-> [sh EXCEPT !.input.type = inputType, !.input.raw = Trim(prep)],
     writes |-> <<Field("input", "type")>>,
     action |-> inputType]

\* InputDetectorNode.post storing the label as the source type as well
InputDetectorPostWithSourceType(sh, prep, inputType) ==
    [shared |-> [sh EXCEPT !.input.type = inputType, !.metadata.sourceType = inputType],
     writes |-> <<Field("input", "type"), Field("metadata", "*")>>,
     action |-> inputType]

InputDetectorPost(sh, prep, inputType) ==
    [shared |-> [sh EXCEPT !.input.type = inputType],
     writes |-> <<Field("input", "type")>>,
     action |-> inputType]

\* ContentExtractorNode.post
ContentExtractorPost(sh, prep, result, now) ==
    LET sh1 == [sh EXCEPT !.content.raw = result.content]
        sh2 == [sh1 EXCEPT !.metadata =
                    [title      |-> OrElse(result.metadata.title, StrUntitledTitle),
                     author     |-> result.metadata.author,
                     date       |-> result.metadata.date,
                     sourceType |-> TypeOrText(sh1),
                     wordCount  |-> result.metadata.wordCount]]
        sh3 == [sh2 EXCEPT !.output.timestamp = generateTimestamp(now)]
        sh4 == [sh3 EXCEPT !.output.slug = slugify(sh3.metadata.title)]
    IN  [shared |-> sh4,
         writes |-> <<Field("content", "raw"), Field("metadata", "*"),
                      Field("output", "timestamp"), Field("output", "slug")>>,
         action |-> "default"]

Layer1Post(sh, prep, result) ==
    [shared |-> [sh EXCEPT !.layers.layer1 = result],
     writes |-> <<Field("layers", "layer1")>>,
     action |-> "default"]

\* Layer2BoldNode.post putting its result in the slot of layer 1 as well
Layer2PostOverLayer1(sh, prep, result) ==
    [shared |-> [sh EXCEPT !.layers.layer1 = result, !.layers.layer2 = result],
     writes |-> <<Field("layers", "layer1"), Field("layers", "layer2")>>,
     action |-> "default"]

Layer2Post(sh, prep, result) ==
    [shared |-> [sh EXCEPT !.layers.layer2 = result],
     writes |-> <<Field("layers", "layer2")>>,
     action |-> "default"]

\* Layer3DistillNode.post storing its result in the slot of layer 4
Layer3PostIntoLayer4(sh, prep, result) ==
    [shared |-> [sh EXCEPT !.layers.layer4 = result],
     writes |-> <<Field("layers", "layer4")>>,
     action |-> "default"]

Layer3Post(sh, prep, result) ==
    [shared |-> [sh EXCEPT !.layers.layer3 = result],
     writes |-> <<Field("layers", "layer3")>>,
     action |-> "default"]

Layer4Post(sh, prep, result) ==
    [shared |-> [sh EXCEPT !.layers.layer4 = result],
     writes |-> <<Field("layers", "layer4")>>,
     action |-> "default"]

\* Layer5CreativeNode.post without the assignment of its slot
Layer5PostWithoutStore(sh, prep, result) ==
    [shared |-> sh, writes |-> <<>>, action |-> "default"]

Layer5Post(sh, prep, result) ==
    [shared |-> [sh EXCEPT !.layers.layer5 = result],
     writes |-> <<Field("layers", "layer5")>>,
     action |-> "default"]

PostOf(node, sh, prep, result, now) ==
    CASE node = "InputDetector"    -> InputDetectorPost(sh, prep, result)
      [] node = "ContentExtractor" -> ContentExtractorPost(sh, prep, result, now)
      [] node = "Layer1"           -> Layer1Post(sh, prep, result)
      [] node = "Layer2"           -> Layer2Post(sh, prep, result)
      [] node = "Layer3"           -> Layer3Post(sh, prep, result)
      [] node = "Layer4"           -> Layer4Post(sh, prep, result)
      [] node = "Layer5"           -> Layer5Post(sh, prep, result)

\* FileSaverNode.post, after its loop: the assignment of the local list
FileSaverPost(sh, entries, results, savedFiles) ==
    [shared |-> [sh EXCEPT !.output.savedFiles = savedFiles],
     writes |-> <<Field("output", "savedFiles")>>,
     action |-> "default"]

\* the characters of the layer names and of the type labels
Chars(str) ==
    CASE str = "Initial Capture" -> <<"I", "n", "i", "t", "i", "a", "l", " ", "C", "a", "p", "t", "u", "r", "e">>
      [] str = "Key Passages" -> <<"K", "e", "y", " ", "P", "a", "s", "s", "a", "g", "e", "s">>
      [] str = "Distilled Insights" -> <<"D", "i", "s", "t", "i", "l", "l", "e", "d", " ", "I", "n", "s", "i", "g", "h", "t", "s">>
      [] str = "Executive Summary" -> <<"E", "x", "e", "c", "u", "t", "i", "v", "e", " ", "S", "u", "m", "m", "a", "r", "y">>
      [] str = "Creative Output" -> <<"C", "r", "e", "a", "t", "i", "v", "e", " ", "O", "u", "t", "p", "u", "t">>
      [] str = "text" -> <<"t", "e", "x", "t">>
      [] str = "pdf" -> <<"p", "d", "f">>
      [] str = "image" -> <<"i", "m", "a", "g", "e">>
      [] str = "url" -> <<"u", "r", "l">>
      [] OTHER -> <<>>

\* String(n) for a number that is not negative
RECURSIVE Digits(_)
Digits(n) == IF n < 10 THEN <<ToString(n)>> ELSE Digits(n \div 10) \o <<ToString(n % 10)>>

\* escapeYamlString: a backslash before every double quote
RECURSIVE escapeYamlString(_)
escapeYamlString(str) ==
    IF str = <<>> THEN <<>>
    ELSE (IF Head(str) = "\"" THEN <<"\\", "\"">> ELSE <<Head(str)>>)
         \o escapeYamlString(Tail(str))

\* lines.join('\n')
RECURSIVE JoinLines(_)
JoinLines(lines) ==
    IF lines = <<>> THEN <<>>
    ELSE IF Len(lines) = 1 THEN Head(lines)
    ELSE Head(lines) \o <<"\n">> \o JoinLines(Tail(lines))

Quoted(str) == <<"\"">> \o str \o <<"\"">>

\* generateFrontmatter with an author line in every header
generateFrontmatterAlwaysAuthor(metadata) ==
    JoinLines(<< <<"-", "-", "-">>,
                 <<"t", "i", "t", "l", "e", ":", " ">> \o Quoted(escapeYamlString(metadata.title)),
                 <<"l", "a", "y", "e", "r", ":", " ">> \o Digits(metadata.layer),
                 <<"l", "a", "y", "e", "r", "_", "n", "a", "m", "e", ":", " ">> \o Quoted(Chars(metadata.layerName)),
                 <<"s", "o", "u", "r", "c", "e", ":", " ">> \o Quoted(Chars(metadata.sourceType)),
                 <<"c", "r", "e", "a", "t", "e", "d", ":", " ">> \o Quoted(metadata.created),
                 <<"w", "o", "r", "d", "_", "c", "o", "u", "n", "t", ":", " ">> \o Digits(metadata.wordCount),
                 <<"a", "u", "t", "h", "o", "r", ":", " ">> \o Quoted(escapeYamlString(metadata.author)),
                 <<"-", "-", "-">>,
                 <<>> >>)

generateFrontmatter(metadata) ==
    JoinLines(<< <<"-", "-", "-">>,
                 <<"t", "i", "t", "l", "e", ":", " ">> \o Quoted(escapeYamlString(metadata.title)),
                 <<"l", "a", "y", "e", "r", ":", " ">> \o Digits(metadata.layer),
                 <<"l", "a", "y", "e", "r", "_", "n", "a", "m", "e", ":", " ">> \o Quoted(Chars(metadata.layerName)),
                 <<"s", "o", "u", "r", "c", "e", ":", " ">> \o Quoted(Chars(metadata.sourceType)),
                 <<"c", "r", "e", "a", "t", "e", "d", ":", " ">> \o Quoted(metadata.created),
                 <<"w", "o", "r", "d", "_", "c", "o", "u", "n", "t", ":", " ">> \o Digits(metadata.wordCount) >>
              \o (IF Truthy(metadata.author)
                  THEN << <<"a", "u", "t", "h", "o", "r", ":", " ">> \o Quoted(escapeYamlString(metadata.author)) >>
                  ELSE << >>)
              \o << <<"-", "-", "-">>, <<>> >>)

\* saveLayer: the text of the file, frontmatter + header + content
saveLayerContent(content, metadata) ==
    generateFrontmatter(metadata)
    \o <<"#", " ", "L">> \o Digits(metadata.layer) \o <<":", " ">> \o metadata.title
    \o <<" ", "-", " ">> \o Chars(metadata.layerName) \o <<"\n", "\n">>
    \o content

\* FileSaverNode.post naming every source a text
LayerMetadataOfTextSource(sh, entry, now) ==
    [title      |-> sh.metadata.title,
     layer      |-> entry.level,
     layerName  |-> entry.name,
     sourceType |-> "text",
     created    |-> toISOString(now),
     wordCount  |-> countWords(entry.content),
     author     |-> sh.metadata.author]

\* FileSaverNode.post: the metadata it hands to saveLayer
LayerMetadataOf(sh, entry, now) ==
    [title      |-> sh.metadata.title,
     layer      |-> entry.level,
     layerName  |-> entry.name,
     sourceType |-> sh.metadata.sourceType,
     created    |-> toISOString(now),
     wordCount  |-> countWords(entry.content),
     author     |-> sh.metadata.author]

\* FileSaverNode.post, one turn of its loop: the file saveLayer writes for
\* an entry
SaveLayerFile(sh, entry, now) ==
    LET timestamp == OrElse(sh.output.timestamp, <<>>)
        slug      == OrElse(sh.output.slug, StrUntitledSlug)
        filename  == generateLayerFilename(timestamp, slug, entry.level)
    IN  [path    |-> PathJoin(sh.output.directory, filename),
         level   |-> entry.level,
         content |-> entry.content,
         text    |-> saveLayerContent(entry.content, LayerMetadataOf(sh, entry, now))]

\* saveLayer can throw: mkdir or writeFile fails
SaveLayerErrors == {"ENOSPC: no space left on device"}

(***************************************************************************)
(* The engine: Flow._orchestrate, Node._exec, BatchNode._exec, and main    *)
(***************************************************************************)
\* Node._exec: every attempt calls exec with what prep returned
ExecInput(prep, retry) == prep

\* Node._exec, in its catch: this was the last attempt
\* the retry loop giving up one attempt late
RetryExhaustedLate(node, retry) == retry = node.maxRetries

RetryExhausted(node, retry) == retry = node.maxRetries - 1

\* main's catch: the message is printed and the process exits with 1
\* (Node.execFallback rethrows, nothing between the node and main catches)
\* main's catch block reporting the error without ending the process in failure
MainCatchSwallowing(e) ==
    /\ status' = "completed"
    /\ exitCode' = 0
    /\ error' = e
    /\ pc' = "done"

MainCatch(e) ==
    /\ status' = "failed"
    /\ exitCode' = 1
    /\ error' = e
    /\ pc' = "done"

NoCalls == [prep |-> 0, post |-> 0]

\* Flow._orchestrate after a node's post returned its label: go to the
\* registered successor, or end the run when there is none
Route(node, action) ==
    LET next == getNextNode(Successors, node, action)
    IN  IF next = NoNode
        THEN /\ current' = NoNode
             /\ pc' = "done"
             /\ status' = "completed"
             /\ exitCode' = 0
        ELSE /\ current' = next
             /\ pc' = "prep"
             /\ UNCHANGED <<status, exitCode>>

Log(node, writes) == [i \in DOMAIN writes |-> [node |-> node, field |-> writes[i]]]

InitWith(policy) ==
    /\ \E input \in CliInputs, options \in RunOptions :
          \E file \in ReadOutcomes(resolve(input)) :
             /\ argv = [input |-> input, file |-> file]
             /\ shared = createInitialState(resolveInput(input, file), options)
    /\ \E provider \in Providers : globalConfig = [provider |-> provider]
    /\ nodes = policy
    /\ current = StartNode
    /\ pc = "prep"
    /\ prepBox = NoValue
    /\ execBox = NoValue
    /\ currentRetry = 0
    /\ savedFilesLocal = <<>>
    /\ fileWrites = <<>>
    /\ status = "running"
    /\ exitCode = -1
    /\ error = NoError
    /\ activations = <<>>
    /\ calls = [n \in Nodes |-> NoCalls]
    /\ attempts = 0
    /\ argsBox = {}
    /\ waited = 0
    /\ writeLog = <<>>
    /\ saveAttempts = <<>>

\* the flow as createNoteFlow builds it
Init == InitWith(NodePolicy(DefaultMaxRetries, DefaultWait))

\* the same flow with its nodes constructed with any retry policy
InitRetry ==
    \E r \in 1..MaxAttempts, w \in 0..MaxWait : InitWith(NodePolicy(r, w))

\* BaseNode._run: prep, and the start of _exec
Prep ==
    /\ status = "running" /\ pc = "prep"
    /\ pc' = "exec"
    /\ prepBox' = Box(current, PrepOf(current, shared))
    /\ execBox' = IF current \in BatchNodes THEN Box(current, <<>>) ELSE NoValue
    /\ savedFilesLocal' = <<>>
    /\ currentRetry' = 0
    /\ activations' = Append(activations, current)
    /\ calls' = [calls EXCEPT ![current].prep = @ + 1]
    /\ attempts' = 0
    /\ argsBox' = {}
    /\ waited' = 0
    /\ shared' = PrepWrites(current, shared)
    /\ UNCHANGED <<argv, globalConfig, nodes, current, fileWrites, status, exitCode,
                   error, writeLog,
                   saveAttempts>>

\* Node._exec: an attempt of exec returns
ExecReturn ==
    /\ status = "running" /\ pc = "exec" /\ current \notin BatchNodes
    /\ pc' = "post"
    /\ attempts' = attempts + 1
    /\ \E r \in ExecResults(current, ExecInput(prepRes, currentRetry), globalConfig) :
          execBox' = Box(current, r)
    /\ argsBox' = argsBox \cup {Box(current, ExecInput(prepRes, currentRetry))}
    /\ UNCHANGED <<shared, argv, globalConfig, nodes, current, prepBox, currentRetry,
                   savedFilesLocal, fileWrites, status, exitCode, error, activations,
                   calls, waited, writeLog,
                   saveAttempts>>

\* Node._exec: an attempt of exec throws; the last attempt propagates the
\* error, an earlier one sleeps for wait seconds and tries again
ExecThrow ==
    /\ status = "running" /\ pc = "exec" /\ current \notin BatchNodes
    /\ attempts' = attempts + 1
    /\ \E e \in ExecErrors(current, ExecInput(prepRes, currentRetry), globalConfig) :
          IF RetryExhausted(nodes[current], currentRetry)
          THEN /\ MainCatch(e)
               /\ UNCHANGED <<currentRetry, waited>>
          ELSE /\ waited' = waited + nodes[current].wait
               /\ currentRetry' = currentRetry + 1
               /\ UNCHANGED <<status, exitCode, error, pc>>
    /\ argsBox' = argsBox \cup {Box(current, ExecInput(prepRes, currentRetry))}
    /\ UNCHANGED <<shared, argv, globalConfig, nodes, current, prepBox, execBox,
                   savedFilesLocal, fileWrites, activations, calls, writeLog,
                   saveAttempts>>

\* BatchNode._exec: exec of one item that has no result yet
BatchExecItem ==
    /\ status = "running" /\ pc = "exec" /\ current \in BatchNodes
    /\ attempts' = attempts + 1
    /\ \E i \in DOMAIN prepRes \ DOMAIN execRes :
          /\ execBox' = Box(current, (i :> FileSaverExec(prepRes[i])) @@ execRes)
          /\ argsBox' = argsBox \cup {Box(current, prepRes[i])}
    /\ UNCHANGED <<shared, argv, globalConfig, nodes, current, pc, prepBox, currentRetry,
                   savedFilesLocal, fileWrites, status, exitCode, error, activations,
                   calls, waited, writeLog,
                   saveAttempts>>

\* BatchNode._exec returning as soon as one item has its result
BatchExecDoneEarly ==
    /\ status = "running" /\ pc = "exec" /\ current \in BatchNodes
    /\ DOMAIN execRes # {} \/ DOMAIN prepRes = {}
    /\ pc' = "post"
    /\ UNCHANGED <<shared, argv, globalConfig, nodes, current, prepBox, execBox, currentRetry,
                   savedFilesLocal, fileWrites, status, exitCode, error, activations,
                   calls, attempts, argsBox, waited, writeLog, saveAttempts>>

\* BatchNode._exec: every item has its result
BatchExecDone ==
    /\ status = "running" /\ pc = "exec" /\ current \in BatchNodes
    /\ DOMAIN execRes = DOMAIN prepRes
    /\ pc' = "post"
    /\ UNCHANGED <<shared, argv, globalConfig, nodes, current, prepBox, execBox, currentRetry,
                   savedFilesLocal, fileWrites, status, exitCode, error, activations,
                   calls, attempts, argsBox, waited, writeLog,
                   saveAttempts>>

\* BaseNode._run: post of a plain node, then the routing on its label
Post ==
    /\ status = "running" /\ pc = "post" /\ current \notin BatchNodes
    /\ calls' = [calls EXCEPT ![current].post = @ + 1]
    /\ \E now \in Dates :
          \E p \in {PostOf(current, shared, prepRes, execRes, now)} :
             /\ shared' = p.shared
             /\ writeLog' = writeLog \o Log(current, p.writes)
             /\ Route(current, p.action)
    /\ UNCHANGED <<argv, globalConfig, nodes, prepBox, execBox, currentRetry, savedFilesLocal,
                   fileWrites, error, activations, attempts, argsBox, waited,
                   saveAttempts>>

\* FileSaverNode.post: saveLayer succeeds for the next entry
SaveLayer ==
    /\ status = "running" /\ pc = "post" /\ current = "FileSaver"
    /\ Len(savedFilesLocal) < Len(prepRes)
    /\ saveAttempts' = Append(saveAttempts, prepRes[Len(savedFilesLocal) + 1].level)
    /\ \E now \in Dates :
          \E file \in {SaveLayerFile(shared, prepRes[Len(savedFilesLocal) + 1], now)} :
             /\ fileWrites' = Append(fileWrites, file)
             /\ savedFilesLocal' = Append(savedFilesLocal, file.path)
    /\ calls' = [calls EXCEPT ![current].post =
                    IF savedFilesLocal = <<>> THEN @ + 1 ELSE @]
    /\ UNCHANGED <<shared, argv, globalConfig, nodes, current, pc, prepBox, execBox,
                   currentRetry, status, exitCode, error, activations, attempts,
                   argsBox, waited, writeLog>>

\* FileSaverNode.post catching the error of saveLayer and trying the same
\* entry again
SaveLayerThrowRetrying ==
    /\ status = "running" /\ pc = "post" /\ current = "FileSaver"
    /\ Len(savedFilesLocal) < Len(prepRes)
    /\ Len(saveAttempts) < 2 * Len(prepRes)
    /\ saveAttempts' = Append(saveAttempts, prepRes[Len(savedFilesLocal) + 1].level)
    /\ UNCHANGED <<shared, argv, globalConfig, nodes, current, pc, prepBox, execBox,
                   currentRetry, savedFilesLocal, fileWrites, status, exitCode, error,
                   activations, calls, attempts, argsBox, waited, writeLog>>

\* FileSaverNode.post: saveLayer throws for the next entry; post is not
\* retried, the error leaves the run
SaveLayerThrow ==
    /\ status = "running" /\ pc = "post" /\ current = "FileSaver"
    /\ Len(savedFilesLocal) < Len(prepRes)
    /\ \E e \in SaveLayerErrors : MainCatch(e)
    /\ saveAttempts' = Append(saveAttempts, prepRes[Len(savedFilesLocal) + 1].level)
    /\ calls' = [calls EXCEPT ![current].post =
                    IF savedFilesLocal = <<>> THEN @ + 1 ELSE @]
    /\ UNCHANGED <<shared, argv, globalConfig, nodes, current, prepBox, execBox, currentRetry,
                   savedFilesLocal, fileWrites, activations, attempts, argsBox,
                   waited, writeLog>>

\* FileSaverNode.post: the loop is over
FileSaverPostReturn ==
    /\ status = "running" /\ pc = "post" /\ current = "FileSaver"
    /\ Len(savedFilesLocal) = Len(prepRes)
    /\ \E p \in {FileSaverPost(shared, prepRes, execRes, savedFilesLocal)} :
          /\ shared' = p.shared
          /\ writeLog' = writeLog \o Log(current, p.writes)
          /\ Route(current, p.action)
    /\ calls' = [calls EXCEPT ![current].post =
                    IF savedFilesLocal = <<>> THEN @ + 1 ELSE @]
    /\ UNCHANGED <<argv, globalConfig, nodes, prepBox, execBox, currentRetry, savedFilesLocal,
                   fileWrites, error, activations, attempts, argsBox, waited,
                   saveAttempts>>

Next ==
    \/ Prep
    \/ ExecReturn
    \/ ExecThrow
    \/ BatchExecItem
    \/ BatchExecDone
    \/ Post
    \/ SaveLayer
    \/ SaveLayerThrow
    \/ FileSaverPostReturn

Spec == Init /\ [][Next]_vars

SpecRetry == InitRetry /\ [][Next]_vars

\* what moves with every step of a run: the phase, the node, or a count
progress == <<pc, current, attempts, currentRetry, saveAttempts, status>>

\* a running run goes on: some step is taken that moves it.  Every
\* external call (extraction, generation, file write) returns or raises, and
\* the awaiting code then continues
Continue ==
    /\ status = "running"
    /\ pc' \in {"prep", "exec", "post", "done"}
    /\ current' \in Nodes \cup {NoNode}
    /\ attempts' \in {0, attempts, attempts + 1}
    /\ currentRetry' \in {0, currentRetry, currentRetry + 1}
    /\ saveAttempts' \in {saveAttempts} \cup {Append(saveAttempts, n) : n \in 1..5}
    /\ status' \in {"running", "completed", "failed"}

\* the wired flow when no running run stalls for ever
SpecFair == Init /\ [][Next]_vars /\ WF_progress(Continue)

(***************************************************************************)
(* Properties                                                              *)
(***************************************************************************)
\* the chain createNoteFlow documents
Chain == <<"InputDetector", "ContentExtractor", "Layer1", "Layer2", "Layer3",
           "Layer4", "Layer5", "FileSaver">>

IsPrefix(s, t) == Len(s) <= Len(t) /\ SubSeq(t, 1, Len(s)) = s

Last(s) == s[Len(s)]

\* the assignments to layer slots, in the order they were made
LayerWrites == SelectSeq(writeLog, LAMBDA w : w.field.obj = "layers")

\* C1: every label the detector can return (text, pdf, image, url; and the
\* label it returns for each raw input) is registered at the detector and
\* leads to the content extractor; once the detector has returned its label,
\* the node that runs next is the content extractor.
C1_BranchConvergence ==
    /\ \A label \in InputType :
          /\ label \in DOMAIN Successors["InputDetector"]
          /\ getNextNode(Successors, "InputDetector", label) = "ContentExtractor"
    /\ \A input \in RawInputs :
          getNextNode(Successors, "InputDetector", DetectExec(input)) = "ContentExtractor"
    /\ calls["InputDetector"].post = 1 =>
          /\ shared.input.type \in InputType
          /\ Len(activations) = 1 => (current = "ContentExtractor" /\ pc = "prep")
          /\ Len(activations) >= 2 => activations[2] = "ContentExtractor"

\* C1 witness: the detector returned 'image' and the extractor is next
C1_Witness ==
    /\ shared.input.type = "image"
    /\ current = "ContentExtractor"
    /\ pc = "prep"
    /\ activations = <<"InputDetector">>

\* C2: the nodes are activated one at a time in the order of the chain (a
\* node is prepared only after every node before it has finalized, and no
\* node is activated twice); a run that completes has activated all eight,
\* each prepared and finalized exactly once, and ends after FileSaver, whose
\* label 'default' has no registered successor.
C2_SequentialChain ==
    /\ IsPrefix(activations, Chain)
    /\ \A i \in DOMAIN activations :
          /\ calls[activations[i]].prep = 1
          /\ i < Len(activations) => calls[activations[i]].post = 1
    /\ \A n \in Nodes \ Range(activations) : calls[n] = NoCalls
    /\ status = "running" /\ pc # "prep" => current = Last(activations)
    /\ status = "completed" =>
          /\ activations = Chain
          /\ \A n \in Nodes : calls[n] = [prep |-> 1, post |-> 1]
          /\ Last(writeLog).node = "FileSaver"
          /\ getNextNode(Successors, "FileSaver", "default") = NoNode
          /\ current = NoNode

\* C2 witness: a completed run that saved five files
C2_Witness ==
    /\ status = "completed"
    /\ Len(fileWrites) = 5
    /\ activations = Chain

\* C3: the i-th assignment to a layer slot is the assignment of layer i by
\* the node Layer<i> (so each slot is written at most once, by its node,
\* in ascending order), a slot is set exactly when its assignment is
\* logged, and once a layer node has run prep, everything prep read had been
\* assigned: the content for Layer1, layer N-1 for Layer2..Layer4, layers 3
\* and 4 for Layer5 (prep saw the slots' values, not its '' fallback).
C3_LayersAscending ==
    /\ Len(LayerWrites) <= 5
    /\ \A i \in DOMAIN LayerWrites :
          /\ LayerWrites[i].field.key = layerConfigs[i].key
          /\ LayerWrites[i].node = Chain[i + 2]
    /\ \A i \in 1..5 :
          shared.layers[layerConfigs[i].key] # undefined <=> i <= Len(LayerWrites)
    /\ current \in LayerNodes /\ pc \in {"exec", "post"} =>
          /\ current = "Layer1" =>
                /\ \E i \in DOMAIN writeLog : writeLog[i].field = Field("content", "raw")
                /\ prepRes.content = shared.content.raw
          /\ current = "Layer2" =>
                shared.layers.layer1 # undefined /\ prepRes = shared.layers.layer1
          /\ current = "Layer3" =>
                shared.layers.layer2 # undefined /\ prepRes.layer2 = shared.layers.layer2
          /\ current = "Layer4" =>
                shared.layers.layer3 # undefined /\ prepRes.layer3 = shared.layers.layer3
          /\ current = "Layer5" =>
                /\ shared.layers.layer3 # undefined /\ prepRes.layer3 = shared.layers.layer3
                /\ shared.layers.layer4 # undefined /\ prepRes.layer4 = shared.layers.layer4

\* C3 witness: Layer5 has run prep with the four earlier slots filled
C3_Witness ==
    /\ current = "Layer5"
    /\ pc = "exec"
    /\ \A i \in 1..4 : Truthy(shared.layers[layerConfigs[i].key])
    /\ shared.layers.layer5 = undefined


\* the number of logged assignments of the slot of layer i made by node n
SlotWrites(i, n) ==
    Cardinality({j \in DOMAIN LayerWrites :
                    /\ LayerWrites[j].field.key = layerConfigs[i].key
                    /\ LayerWrites[j].node = n})

\* C4 as stated: after a run that completed, each of the five layer slots is
\* non-empty and was assigned by exactly one node.
C4_EverySlotNonEmpty ==
    status = "completed" =>
        \A i \in 1..5 :
            /\ Truthy(shared.layers[layerConfigs[i].key])
            /\ Cardinality({n \in Nodes : SlotWrites(i, n) > 0}) = 1

\* C4 amended: after a run that completed, each of the five layer slots was
\* assigned exactly once, by its own layer node and by no other, and holds
\* a text the generation call returned; that text is empty when the
\* provider's response carried no content.
C4_EverySlotAssignedOnce ==
    status = "completed" =>
        \A i \in 1..5 :
            /\ shared.layers[layerConfigs[i].key] # undefined
            /\ shared.layers[layerConfigs[i].key] \in LlmTexts
            /\ \A n \in Nodes :
                  SlotWrites(i, n) = IF n = Chain[i + 2] THEN 1 ELSE 0

\* C4 witness: a completed run whose third slot holds the empty text
C4_Witness ==
    /\ status = "completed"
    /\ shared.layers.layer3 = <<>>
    /\ Truthy(shared.layers.layer5)

\* the levels whose slot is non-empty, ascending
RECURSIVE NonEmptyLevels(_)
NonEmptyLevels(from) ==
    IF from > 5 THEN <<>>
    ELSE (IF Truthy(shared.layers[layerConfigs[from].key]) THEN <<from>> ELSE <<>>)
         \o NonEmptyLevels(from + 1)

LevelSuffix(n) ==
    <<"_", "l", "e", "v", "e", "l", "-">> \o <<ToString(n)>> \o <<".", "m", "d">>

\* C5: when the save stage has completed, savedFiles holds one path per
\* non-empty layer slot, in ascending layer order, each in the output
\* directory and ending in _level-<n>.md with n the layer's own number (a
\* skipped layer does not renumber the later ones), one file was written per
\* path with the slot's content, and this holds for every order in which
\* the per-entry exec calls ran, whatever they returned.
C5_SavedFilesPerNonEmptyLayer ==
    status = "completed" =>
        LET levels == NonEmptyLevels(1)
            saved  == shared.output.savedFiles
        IN  /\ Len(saved) = Len(levels)
            /\ \A i \in DOMAIN levels :
                  /\ EndsWith(saved[i], LevelSuffix(levels[i]))
                  /\ saved[i] = PathJoin(shared.output.directory,
                                   generateLayerFilename(shared.output.timestamp,
                                       OrElse(shared.output.slug, StrUntitledSlug),
                                       levels[i]))
                  /\ fileWrites[i].path = saved[i]
                  /\ fileWrites[i].content = shared.layers[layerConfigs[levels[i]].key]
            /\ Len(fileWrites) = Len(levels)

\* C5 witness: a completed run that skipped layers 2 and 4
C5_Witness ==
    /\ status = "completed"
    /\ shared.layers.layer2 = <<>>
    /\ shared.layers.layer4 = <<>>
    /\ Len(shared.output.savedFiles) = 3
    /\ EndsWith(shared.output.savedFiles[2], LevelSuffix(3))

\* C6 as stated: when a write fails in the save stage, the paths of the
\* files already written are in shared.output.savedFiles, and the failure
\* reaches the caller.
C6_PartialWritesListed ==
    status = "failed" /\ current = "FileSaver" =>
        /\ \A i \in DOMAIN fileWrites :
              /\ i <= Len(shared.output.savedFiles)
              /\ shared.output.savedFiles[i] = fileWrites[i].path
        /\ error \in SaveLayerErrors
        /\ exitCode = 1

C8_RetryExhaustionAborts ==
    /\ pc = "done" =>
          \/ status = "completed" /\ current = NoNode /\ exitCode = 0 /\ error = NoError
          \/ status = "failed" /\ current \in Nodes /\ exitCode = 1 /\ error # NoError
    /\ status = "failed" /\ current \notin BatchNodes =>
          /\ attempts = nodes[current].maxRetries
          /\ currentRetry = nodes[current].maxRetries - 1
          /\ waited = (nodes[current].maxRetries - 1) * nodes[current].wait
          /\ error \in ExecErrors(current, prepRes, globalConfig)
          /\ calls[current].post = 0
          /\ Last(activations) = current
    /\ status = "failed" => ~ENABLED Next

\* C8 witness: Layer1 failed on each of three attempts, two seconds apart
C8_Witness ==
    /\ status = "failed"
    /\ current = "Layer1"
    /\ nodes[current] = [maxRetries |-> 3, wait |-> 2]
    /\ attempts = 3
    /\ waited = 4
    /\ exitCode = 1

\* C9 as stated: a layer node whose generation call keeps failing has been
\* attempted up to three times in total, two seconds apart, when the failure
\* is propagated.
C9_LayerNodesRetryThreeTimes ==
    status = "failed" /\ current \in LayerNodes =>
        /\ attempts = ConfigMaxRetries
        /\ waited = (ConfigMaxRetries - 1) * ConfigRetryWait

\* C10: only exec is repeated. Each node is prepared at most once and
\* finalized at most once; every exec attempt of an activation comes after
\* its one prep and receives the prepared input (for a batch node, one of
\* the prepared entries); the attempts never exceed the node's maximum;
\* post starts only after an attempt that returned, with that result, and
\* a node whose attempts all failed is not finalized.
C10_OnlyExecRepeats ==
    /\ \A n \in Nodes :
          /\ calls[n].prep <= 1
          /\ calls[n].post <= calls[n].prep
    /\ pc \in {"exec", "post"} \/ status = "failed" =>
          /\ current \in Nodes
          /\ calls[current].prep = 1
          /\ Last(activations) = current
    /\ current \in Nodes \ BatchNodes /\ pc # "prep" =>
          /\ execArgs \subseteq {prepRes}
          /\ attempts > 0 => execArgs = {prepRes}
          /\ attempts <= nodes[current].maxRetries
          /\ pc = "exec" => attempts = currentRetry /\ calls[current].post = 0
          /\ pc = "post" =>
                /\ attempts = currentRetry + 1
                /\ execRes \in ExecResults(current, prepRes, globalConfig)
                /\ calls[current].post = 0
          /\ status = "failed" => calls[current].post = 0
    /\ current \in BatchNodes /\ pc \in {"exec", "post"} =>
          /\ execArgs \subseteq Range(prepRes)
          /\ pc = "post" => DOMAIN execRes = DOMAIN prepRes

\* C10 witness: Layer2's exec returned on the third attempt and post is next
C10_Witness ==
    /\ current = "Layer2"
    /\ pc = "post"
    /\ attempts = 3
    /\ calls["Layer2"] = [prep |-> 1, post |-> 0]
    /\ execArgs = {prepRes}


WrittenFields ==
    {Field("input", "type"), Field("metadata", "*"), Field("content", "raw"),
     Field("output", "timestamp"), Field("output", "slug"),
     Field("output", "savedFiles")}
    \cup {Field("layers", layerConfigs[i].key) : i \in 1..5}

FieldValue(sh, f) == IF f.key = "*" THEN sh[f.obj] ELSE sh[f.obj][f.key]

\* C12: no field of shared is assigned twice in a run (so it has at most
\* one writer node); in every step, a field whose value changes had not
\* been assigned before and is assigned by the node finalizing in that
\* step, so a field that was assigned keeps its value to the end of the run.
C12_SingleWriterNoOverwrite ==
    /\ [](/\ \A i, j \in DOMAIN writeLog :
                writeLog[i].field = writeLog[j].field => i = j
          /\ \A i \in DOMAIN writeLog : writeLog[i].field \in WrittenFields)
    /\ [][\A f \in WrittenFields :
            /\ FieldValue(shared', f) # FieldValue(shared, f) =>
                  /\ \A i \in DOMAIN writeLog : writeLog[i].field # f
                  /\ \E i \in DOMAIN writeLog' :
                        /\ i > Len(writeLog)
                        /\ writeLog'[i] = [node |-> current, field |-> f]
            /\ (\E i \in DOMAIN writeLog : writeLog[i].field = f) =>
                  FieldValue(shared', f) = FieldValue(shared, f)
         ]_vars

\* C12 witness: a completed run in which every field was assigned
C12_Witness ==
    /\ status = "completed"
    /\ {writeLog[i].field : i \in DOMAIN writeLog} = WrittenFields
    /\ Len(shared.output.savedFiles) = 5


\* the label of the earliest check the trimmed input passes: URL syntax
\* (an http:// or https:// prefix and a string that parses as a URL), the
\* .pdf suffix, an image suffix, else text; the prefix and the suffixes are
\* matched without regard to case
EarliestMatch(input) ==
    LET t      == Trim(input)
        lower  == ToLowerCase(t)
        checks == << [label |-> "url",
                      hit   |-> (StartsWith(lower, StrHttp) \/ StartsWith(lower, StrHttps))
                                /\ UrlParses(t)],
                     [label |-> "pdf",   hit |-> EndsWith(lower, StrPdfExt)],
                     [label |-> "image",
                      hit   |-> \E ext \in ImageExtensions : EndsWith(lower, ext)],
                     [label |-> "text",  hit |-> TRUE] >>
    IN  checks[Min({i \in DOMAIN checks : checks[i].hit})].label

\* C13: the detector's label is the label of the earliest check the trimmed
\* raw input passes, in the order URL syntax, .pdf suffix, image suffix,
\* text; an input that passes several checks gets the label of the first
\* one, and the label stored in shared is that label.
C13_ClassificationPrecedence ==
    /\ current = "InputDetector" /\ pc = "post" => execRes = EarliestMatch(prepRes)
    /\ calls["InputDetector"].post = 1 =>
          shared.input.type = EarliestMatch(shared.input.raw)

\* C13 witness: an https URL that ends in an image suffix is labelled url
C13_Witness ==
    /\ calls["InputDetector"].post = 1
    /\ MatchesHttpScheme(shared.input.raw)
    /\ isImageFile(shared.input.raw)
    /\ shared.input.type = "url"


\* C14: classification never fails. The detector's exec raises for no
\* input and returns one of the four labels, text when no check matches;
\* the label has a registered successor, so no run ends at the detector,
\* neither failed nor for lack of a successor.
C14_ClassificationNeverFails ==
    /\ current = "InputDetector" /\ pc = "exec" =>
          /\ ExecErrors(current, prepRes, globalConfig) = {}
          /\ ExecResults(current, prepRes, globalConfig) # {}
    /\ current = "InputDetector" /\ pc = "post" =>
          /\ execRes \in InputType
          /\ getNextNode(Successors, current, execRes) # NoNode
          /\ LET t == Trim(prepRes)
             IN  ~isUrl(t) /\ ~isPdfFile(t) /\ ~isImageFile(t) => execRes = "text"
    /\ pc = "done" =>
          /\ calls["InputDetector"].post = 1
          /\ Len(activations) >= 2
          /\ current # "InputDetector"
    /\ status = "failed" => current # "InputDetector"

\* C14 witness: a malformed URL was labelled text and the extractor runs
C14_Witness ==
    /\ shared.input.raw = StrHttps
    /\ shared.input.type = "text"
    /\ current = "ContentExtractor"
    /\ pc = "exec"

\* the words of a text, counted word by word from the left
RECURSIVE NumberOfWords(_)
NumberOfWords(text) ==
    IF text = <<>> THEN 0
    ELSE IF Head(text) \in Whitespace THEN NumberOfWords(Tail(text))
    ELSE LET ends == {i \in DOMAIN text : text[i] \in Whitespace}
         IN  IF ends = {} THEN 1
             ELSE 1 + NumberOfWords(SubSeq(text, Min(ends), Len(text)))

\* C15 as stated: for a text input the extracted content is the raw input
\* and wordCount its word count, and for the note "Hello world. This is a
\* short note about focus." the label is text, the content is the note and
\* wordCount is 8.
C15_TextPassThroughEightWords ==
    calls["ContentExtractor"].post = 1 /\ shared.input.type = "text" =>
        /\ shared.content.raw = shared.input.raw
        /\ shared.metadata.wordCount = NumberOfWords(shared.input.raw)
        /\ shared.input.raw = TextNote => shared.metadata.wordCount = 8

\* C15 amended: for a text input the extracted content is the raw input,
\* unchanged, and wordCount is the number of its whitespace-separated words;
\* the note "Hello world. This is a short note about focus." is labelled
\* text, extracted unchanged, and has wordCount 9.
C15_TextPassThroughNineWords ==
    /\ shared.input.raw = TextNote /\ calls["InputDetector"].post = 1 =>
          shared.input.type = "text"
    /\ calls["ContentExtractor"].post = 1 /\ shared.input.type = "text" =>
          /\ shared.content.raw = shared.input.raw
          /\ shared.metadata.wordCount = NumberOfWords(shared.input.raw)
          /\ shared.metadata.sourceType = "text"
          /\ shared.input.raw = TextNote => shared.metadata.wordCount = 9

\* C15 witness: the note was extracted
C15_Witness ==
    /\ shared.input.raw = TextNote
    /\ shared.input.type = "text"
    /\ calls["ContentExtractor"].post = 1
    /\ shared.content.raw = TextNote
    /\ shared.metadata.wordCount = 9


\* <timestamp>_<slug>_level-<n>.md
ArtifactName(timestamp, slug, n) ==
    timestamp \o <<"_">> \o slug \o <<"_", "l", "e", "v", "e", "l", "-">>
        \o <<ToString(n)>> \o <<".", "m", "d">>

\* the timestamp and the slug were each assigned once, by the extractor
StampAndSlugWrittenOnce ==
    \A key \in {"timestamp", "slug"} :
        /\ Cardinality({i \in DOMAIN writeLog :
                           writeLog[i].field = Field("output", key)}) = 1
        /\ \A i \in DOMAIN writeLog :
              writeLog[i].field = Field("output", key) =>
                  writeLog[i].node = "ContentExtractor"

FiveNonEmptyLayers ==
    \A i \in 1..5 : Truthy(shared.layers[layerConfigs[i].key])

\* C16 as stated: a completed run with five non-empty layers wrote exactly
\* five artifacts, into the configured directory, named
\* <timestamp>_<slug>_level-1.md to level-5.md with the timestamp and the
\* slug of shared, each written once, after extraction.
C16_FiveArtifactsNamedBySharedSlug ==
    status = "completed" /\ FiveNonEmptyLayers =>
        /\ Len(fileWrites) = 5
        /\ StampAndSlugWrittenOnce
        /\ \A n \in 1..5 :
              fileWrites[n].path =
                  PathJoin(shared.output.directory,
                           ArtifactName(shared.output.timestamp, shared.output.slug, n))

\* C16 amended: a completed run with five non-empty layers wrote exactly
\* five artifacts, into the configured directory, named
\* <timestamp>_<slug>_level-1.md to level-5.md; the timestamp is the one of
\* shared, the slug is the one of shared, or 'untitled' when that slug is
\* empty (a title without letters or digits); both were written to shared
\* once, by the extractor, and all five names share them.
C16_FiveArtifactsNamedBySlugOrUntitled ==
    status = "completed" /\ FiveNonEmptyLayers =>
        /\ Len(fileWrites) = 5
        /\ StampAndSlugWrittenOnce
        /\ shared.output.timestamp # undefined /\ shared.output.slug # undefined
        /\ \A n \in 1..5 :
              fileWrites[n].path =
                  PathJoin(shared.output.directory,
                           ArtifactName(shared.output.timestamp,
                                        IF shared.output.slug = <<>>
                                        THEN <<"u", "n", "t", "i", "t", "l", "e", "d">>
                                        ELSE shared.output.slug,
                                        n))

\* C16 witness: five artifacts written for a title whose slug is empty
C16_Witness ==
    /\ status = "completed"
    /\ FiveNonEmptyLayers
    /\ Len(fileWrites) = 5
    /\ shared.output.slug = <<>>
    /\ shared.output.directory = <<"o", "u", "t">>


\* an error message that names the node where exec failed and the cause;
\* the messages of the extractors ("Failed to extract PDF content",
\* "Failed to fetch URL content") count as naming the extraction stage
NamesFailingNode(message, node, causes) ==
    \/ node = "ContentExtractor" /\ message \in causes
    \/ \E cause \in causes : message = node \o ": " \o cause

C18_FailedWriteNotRetried ==
    /\ \A i, j \in DOMAIN saveAttempts : i < j => saveAttempts[i] < saveAttempts[j]
    /\ \A i \in DOMAIN fileWrites : fileWrites[i].level = saveAttempts[i]
    /\ Len(saveAttempts) =
          Len(fileWrites) + (IF status = "failed" /\ current = "FileSaver" THEN 1 ELSE 0)
    /\ status = "failed" /\ current = "FileSaver" =>
          /\ error \in SaveLayerErrors
          /\ exitCode = 1
          /\ pc = "done"
          /\ ~ENABLED Next

\* C18 witness: the write of level 3 failed after two files were written
\* and two entries were still to be saved
C18_Witness ==
    /\ status = "failed"
    /\ current = "FileSaver"
    /\ saveAttempts = <<1, 2, 3>>
    /\ Len(fileWrites) = 2
    /\ Len(prepRes) = 5


\* the fields of shared that belong to each node of the chain
NodeFields(n) ==
    CASE n = "InputDetector"    -> {Field("input", "type")}
      [] n = "ContentExtractor" -> {Field("content", "raw"), Field("metadata", "*"),
                                    Field("output", "timestamp"), Field("output", "slug")}
      [] n = "FileSaver"        -> {Field("output", "savedFiles")}
      [] OTHER                  ->
            {Field("layers", layerConfigs[i].key) : i \in {j \in 1..5 : Chain[j + 2] = n}}

\* the nodes that have finalized
Finalized ==
    IF current = NoNode \/ pc = "prep" THEN Range(activations)
    ELSE Range(activations) \ {current}

\* a field holds what createInitialState gave it
IsInitial(f) ==
    FieldValue(shared, f) =
        FieldValue(createInitialState(shared.input.raw,
                       [focusArea       |-> shared.input.focusArea,
                        outputFormat    |-> shared.input.outputFormat,
                        outputDirectory |-> shared.output.directory]), f)

\* a field holds data of the kind its node produces
IsValid(f) ==
    CASE f = Field("input", "type")       -> shared.input.type \in InputType
      [] f = Field("content", "raw")      -> shared.content.raw # undefined
      [] f = Field("metadata", "*")       ->
            /\ shared.metadata.title # <<>>
            /\ shared.metadata.sourceType = shared.input.type
            /\ shared.metadata.wordCount >= 0
      [] f = Field("output", "timestamp") -> Len(shared.output.timestamp) = 15
      [] f = Field("output", "slug")      -> shared.output.slug = slugify(shared.metadata.title)
      [] f = Field("output", "savedFiles") -> Len(shared.output.savedFiles) = Len(fileWrites)
      [] OTHER                            -> FieldValue(shared, f) \in LlmTexts

\* C19: at every point of a run, so wherever it aborts, the nodes that have
\* finalized are the first K nodes of the chain for some K; the fields of
\* shared that have been assigned are exactly the fields of those K nodes
\* and hold valid data, and every field of a later node (the failing node
\* included) still holds what the initial state gave it.
C19_PrefixUnderFailure ==
    \E K \in 0..Len(Chain) :
        /\ Finalized = {Chain[i] : i \in 1..K}
        /\ {writeLog[i].field : i \in DOMAIN writeLog} =
              UNION {NodeFields(Chain[i]) : i \in 1..K}
        /\ \A i \in 1..K : \A f \in NodeFields(Chain[i]) : IsValid(f)
        /\ \A i \in (K + 1)..Len(Chain) : \A f \in NodeFields(Chain[i]) : IsInitial(f)
        /\ status = "failed" => current = Chain[K + 1]

\* C19 witness: the run aborted in Layer3, after four nodes had finalized
C19_Witness ==
    /\ status = "failed"
    /\ current = "Layer3"
    /\ Truthy(shared.layers.layer2)
    /\ shared.layers.layer3 = undefined
    /\ shared.output.savedFiles = <<>>


C21_ExtractorFallsBack ==
    /\ status = "failed" => current # "ContentExtractor"
    /\ (current = "ContentExtractor" /\ attempts > 0) => pc = "post"


\* the assignments logged for the input record
InputWrites == SelectSeq(writeLog, LAMBDA w : w.field.obj = "input")

\* C22: no step changes the raw input, the focus area, the output format or
\* the output directory; the input record changes only in the post of the
\* detector, which fills in the type tag that was unset and nothing else;
\* the type tag is assigned once, by the detector, and by no other node.
C22_InputAndDirectoryImmutable ==
    /\ [](/\ Len(InputWrites) = calls["InputDetector"].post
          /\ \A i \in DOMAIN InputWrites :
                InputWrites[i] = [node |-> "InputDetector", field |-> Field("input", "type")]
          /\ shared.input.type # unset <=> calls["InputDetector"].post = 1)
    /\ [][/\ shared'.input.raw = shared.input.raw
          /\ shared'.input.focusArea = shared.input.focusArea
          /\ shared'.input.outputFormat = shared.input.outputFormat
          /\ shared'.output.directory = shared.output.directory
          /\ shared'.input # shared.input =>
                /\ current = "InputDetector" /\ pc = "post"
                /\ shared.input.type = unset
                /\ shared'.input.type \in InputType
         ]_vars

\* C22 witness: a completed run whose raw input still has its surrounding
\* white space and whose preferences are the ones given at the start
C22_Witness ==
    /\ status = "completed"
    /\ shared.input.raw # Trim(shared.input.raw)
    /\ shared.input.type = "image"
    /\ shared.input.focusArea = <<"f", "o", "c", "u", "s">>
    /\ shared.output.directory = <<"o", "u", "t">>


Line(str) == str \o <<"\n">>

\* the metadata header of the artifact of layer n, line by line
ArtifactHeader(n, content, created) ==
    Line(<<"-", "-", "-">>)
    \o Line(<<"t", "i", "t", "l", "e", ":", " ", "\"">> \o shared.metadata.title \o <<"\"">>)
    \o Line(<<"l", "a", "y", "e", "r", ":", " ">> \o Digits(n))
    \o Line(<<"l", "a", "y", "e", "r", "_", "n", "a", "m", "e", ":", " ", "\"">> \o Chars(layerConfigs[n].name) \o <<"\"">>)
    \o Line(<<"s", "o", "u", "r", "c", "e", ":", " ", "\"">> \o Chars(shared.metadata.sourceType) \o <<"\"">>)
    \o Line(<<"c", "r", "e", "a", "t", "e", "d", ":", " ", "\"">> \o created \o <<"\"">>)
    \o Line(<<"w", "o", "r", "d", "_", "c", "o", "u", "n", "t", ":", " ">> \o Digits(NumberOfWords(content)))
    \o (IF shared.metadata.author \notin {undefined, <<>>}
        THEN Line(<<"a", "u", "t", "h", "o", "r", ":", " ", "\"">> \o shared.metadata.author \o <<"\"">>)
        ELSE <<>>)
    \o Line(<<"-", "-", "-">>)

\* the heading of the artifact of layer n and the empty line after it
ArtifactHeading(n) ==
    Line(<<"#", " ", "L">> \o Digits(n) \o <<":", " ">> \o shared.metadata.title
         \o <<" ", "-", " ">> \o Chars(layerConfigs[n].name))
    \o Line(<<>>)

\* C24: every saved artifact is, in this order, the metadata header (title,
\* layer number, layer name, source type, creation time, word count, and an
\* author line exactly when an author is set), the heading
\* 'L<n>: <title> - <layer name>', and the text of the layer unchanged.
C24_ArtifactIsHeaderHeadingText ==
    \A i \in DOMAIN fileWrites :
        LET f == fileWrites[i]
            n == f.level
        IN  /\ n \in 1..5
            /\ f.content = shared.layers[layerConfigs[n].key]
            /\ \E now \in Dates :
                  f.text = ArtifactHeader(n, f.content, toISOString(now))
                           \o ArtifactHeading(n)
                           \o shared.layers[layerConfigs[n].key]

\* C24 witness: a completed run on a PDF whose author is set wrote five
\* artifacts, each with an author line; the title and the author came from
\* the document
C24_Witness ==
    /\ status = "completed"
    /\ shared.input.type = "pdf"
    /\ shared.metadata.author = <<"A", "n", "n">>
    /\ shared.metadata.title = <<"T", "-", "1">>
    /\ Len(fileWrites) = 5

\* C25: when the input argument names a readable text file (.txt, .md,
\* .markdown) the flow receives the content of the file as its raw input and
\* processes it as type text; a URL is passed through and classified url, a
\* PDF or image path is passed through as a path and classified pdf or image.
C25_TextFileContentIsText ==
    /\ HasExtension(argv.input, TextExtensions) /\ argv.file # NoFile =>
          /\ shared.input.raw = argv.file
          /\ calls["InputDetector"].post = 1 => shared.input.type = "text"
    /\ MatchesHttpScheme(argv.input) /\ UrlParses(Trim(argv.input)) =>
          /\ shared.input.raw = argv.input
          /\ calls["InputDetector"].post = 1 => shared.input.type = "url"
    /\ ~MatchesHttpScheme(argv.input) /\ HasExtension(argv.input, BinaryExtensions) =>
          /\ shared.input.raw = resolve(argv.input)
          /\ calls["InputDetector"].post = 1 =>
                shared.input.type = (IF isPdfFile(argv.input) THEN "pdf" ELSE "image")

\* the position of a node in the chain
Rank(n) == CHOOSE i \in DOMAIN Chain : Chain[i] = n

\* the nodes a node can hand over to, under any outcome label
SuccessorsOf(n) ==
    {getNextNode(Successors, n, a) : a \in InputType \cup {"default"}} \ {NoNode}

\* a step of the run can be taken: prep and post always can, exec of a plain
\* node returns or raises, exec of a batch node has an item left or is over
CanStep ==
    \/ pc \in {"prep", "post"}
    \/ /\ pc = "exec" /\ current \notin BatchNodes
       /\ \/ ExecResults(current, ExecInput(prepRes, currentRetry), globalConfig) # {}
          \/ ExecErrors(current, ExecInput(prepRes, currentRetry), globalConfig) # {}
    \/ /\ pc = "exec" /\ current \in BatchNodes
       /\ DOMAIN execRes \subseteq DOMAIN prepRes

\* C26: the wired graph has no back-edge, so every run terminates: a run
\* performs at most 8 node activations, no node twice, and in the end it is
\* over, either completed (after FileSaver) or aborted.
C26_NoBackEdgeRunTerminates ==
    /\ [](/\ \A n \in Nodes : \A m \in SuccessorsOf(n) : Rank(m) > Rank(n)
          /\ Len(activations) <= 8
          /\ \A i, j \in DOMAIN activations :
                i < j => Rank(activations[i]) < Rank(activations[j])
          /\ status = "running" => CanStep
          /\ status = "running" <=> pc # "done"
          /\ pc = "done" =>
                /\ status \in {"completed", "failed"}
                /\ status = "completed" =>
                      Len(activations) = 8 /\ Last(activations) = "FileSaver")
    /\ <>(pc = "done")

\* C26 witness: a run is over after its eighth activation, FileSaver
C26_Witness ==
    /\ pc = "done"
    /\ status = "completed"
    /\ Len(activations) = 8
    /\ activations[8] = "FileSaver"

\* the paths written so far
WrittenPaths == {fileWrites[i].path : i \in DOMAIN fileWrites}

\* C27: within one run the artifact filenames of different layers are
\* pairwise distinct (the same timestamp and slug, a different level), so
\* no artifact written in a run overwrites another artifact of that run.
C27_ArtifactNamesPairwiseDistinct ==
    /\ \A i, j \in DOMAIN fileWrites :
          i # j =>
             /\ fileWrites[i].level # fileWrites[j].level
             /\ fileWrites[i].path # fileWrites[j].path
    /\ \A i \in DOMAIN fileWrites :
          fileWrites[i].path =
             PathJoin(shared.output.directory,
                      ArtifactName(shared.output.timestamp,
                                   OrElse(shared.output.slug, StrUntitledSlug),
                                   fileWrites[i].level))
    /\ \A i, j \in DOMAIN shared.output.savedFiles :
          i # j => shared.output.savedFiles[i] # shared.output.savedFiles[j]
    /\ Cardinality(WrittenPaths) = Len(fileWrites)

\* C27 witness: the save loop has written three artifacts of the run so
\* far, at three different paths
C27_Witness ==
    /\ current = "FileSaver" /\ pc = "post"
    /\ Len(fileWrites) = 3
    /\ Cardinality(WrittenPaths) = 3
    /\ Len(prepRes) > 3

\* C28: with a provider that is not openai, anthropic or ollama the run
\* detects and extracts as usual and aborts at Layer1: content and metadata
\* are set, no layer slot is assigned, no artifact is written, and the
\* process exits with a status that is not zero.
C28_UnsupportedProviderAbortsAtLayer1 ==
    globalConfig.provider \notin SupportedProviders =>
        /\ Range(activations) \subseteq {"InputDetector", "ContentExtractor", "Layer1"}
        /\ \A n \in LayerNodes : calls[n].post = 0
        /\ \A i \in 1..5 : shared.layers[layerConfigs[i].key] = undefined
        /\ fileWrites = <<>>
        /\ shared.output.savedFiles = <<>>
        /\ status # "completed"
        /\ calls["InputDetector"].post = 1 =>
              shared.input.type = EarliestMatch(shared.input.raw)
        /\ calls["ContentExtractor"].post = 1 =>
              /\ shared.metadata.sourceType = shared.input.type
              /\ shared.metadata.title # <<>>
              /\ shared.output.timestamp # undefined
              /\ shared.output.slug # undefined
              /\ shared.input.type = "text" => shared.content.raw = shared.input.raw
        /\ current = "Layer1" /\ pc = "exec" =>
              /\ ExecResults(current, prepRes, globalConfig) = {}
              /\ ExecErrors(current, prepRes, globalConfig) = {"Unsupported LLM provider"}
        /\ pc = "done" =>
              /\ status = "failed"
              /\ exitCode # 0
              /\ calls["ContentExtractor"].post = 1 =>
                    current = "Layer1" /\ error = "Unsupported LLM provider"

\* C28 witness: a run with provider mistral extracted a text and aborted
\* at Layer1 with exit code 1 and nothing written
C28_Witness ==
    /\ globalConfig.provider = "mistral"
    /\ pc = "done"
    /\ current = "Layer1"
    /\ exitCode = 1
    /\ error = "Unsupported LLM provider"
    /\ shared.content.raw = TextNote
    /\ shared.metadata.wordCount = 9
    /\ fileWrites = <<>>

\* the k-th line of a text that has at least k line ends
NthLine(text, k) ==
    LET ends   == Positions(text, "\n")
        End(j) == CHOOSE p \in ends : Cardinality({q \in ends : q <= p}) = j
    IN  SubSeq(text, (IF k = 1 THEN 1 ELSE End(k - 1) + 1), End(k) - 1)

\* C29: the label the detector returns is the type tag it stores in
\* shared.input.type, the extractor dispatches on that tag, after the
\* extraction metadata.sourceType equals it, and so the 'source' value in
\* the header of every artifact is the label the routing used.
C29_LabelIsTypeIsSource ==
    /\ current = "InputDetector" /\ pc = "post" =>
          LET p == InputDetectorPost(shared, prepRes, execRes)
          IN  /\ p.action = execRes
              /\ p.shared.input.type = p.action
              /\ getNextNode(Successors, current, p.action) = "ContentExtractor"
    /\ calls["InputDetector"].post = 1 => shared.input.type \in InputType
    /\ current = "ContentExtractor" /\ pc \in {"exec", "post"} =>
          /\ prepRes.type = shared.input.type
          /\ execArgs \subseteq {prepRes}
    /\ calls["ContentExtractor"].post = 1 =>
          shared.metadata.sourceType = shared.input.type
    /\ \A i \in DOMAIN fileWrites :
          NthLine(fileWrites[i].text, 5)
             = <<"s", "o", "u", "r", "c", "e", ":", " ", "\"">> \o Chars(shared.input.type) \o <<"\"">>

\* C29 witness: a run on a URL wrote its five artifacts, each with the
\* header line source: "url"
C29_Witness ==
    /\ status = "completed"
    /\ shared.input.type = "url"
    /\ Len(fileWrites) = 5
    /\ \A i \in 1..5 : NthLine(fileWrites[i].text, 5) = <<"s", "o", "u", "r", "c", "e", ":", " ", "\"", "u", "r", "l", "\"">>

=============================================================================
